---- MODULE Spec2Model ----
(***************************************************************************)
(* A model of the optimizer package (python/optimizer): the CP-SAT         *)
(* assignment model of ortools_solver.py, the two budget sweeps built on   *)
(* it, dominance pruning, the import step and the modes of cli.py, the     *)
(* metrics model of model.py and the reporting functions of cli.py.        *)
(*                                                                         *)
(* Python values are represented as follows.                               *)
(*   - an IntPoint (cost_int, co2_int) is the tuple <<cost, co2>>;         *)
(*   - block_opts is a sequence of sequences of IntPoints;                 *)
(*   - a result (cost, co2, selection) is <<cost, co2, selection>>, the    *)
(*     selection being a sequence of 0-based option indices;               *)
(*   - Python's None is the empty tuple <<>>.                              *)
(* CP-SAT itself is an external collaborator: a solve ends with one of the *)
(* statuses OPTIMAL, FEASIBLE, INFEASIBLE, UNKNOWN and, for the first two, *)
(* with the values of an assignment that satisfies the model.              *)
(***************************************************************************)
EXTENDS Integers, Sequences, FiniteSets, TLC

VARIABLES
    block_opts,            \* the per-block integer options handed to the optimizer
    op,                    \* the operation called: none, solve, tight, steps, prune, cli
    pc,                    \* position inside the operation: idle, loop, exit, done
    budget_int,            \* solve_max_co2_under_budget: budget_int
    refine_lexicographic,  \* keyword argument of the solve and of both sweeps
    prune,                 \* keyword argument of both sweeps
    min_budget,            \* frontier_by_budget_steps: min_budget
    max_budget,            \* both sweeps: max_budget
    steps,                 \* frontier_by_budget_steps: steps (after the steps <= 1 fix)
    budgets,               \* frontier_by_budget_steps: the list of sampled budgets
    current_budget,        \* frontier_by_budget_tight: current_budget
    seen,                  \* both sweeps: the set of (cost, co2) keys already kept
    results,               \* frontier_by_budget_tight: results
    out,                   \* frontier_by_budget_steps: out
    trace,                 \* history: the budget and the result of every call of
                           \* solve_max_co2_under_budget, in call order
    status1,               \* solve: the status the first CP-SAT solve ended with
    status2,               \* solve: the status of the second solve ("-": not run)
    proved,                \* history: every CP-SAT solve so far ended OPTIMAL or INFEASIBLE
    ret,                   \* the value the operation returned
    points,                \* prune_points: its argument (sorted in place by the call)
    mode,                  \* cli: --mode
    exc,                   \* the exception that ended the operation, or "none"
    blocks,                \* cli: the blocks loaded (area_m2, cell_type)
    params,                \* cli: the Params of the run
    selection,             \* the selection (one option index per block) reported
    metrics,               \* build_block_options: per block and option, the values
                           \* compute_block_option_metrics computed
    counts,                \* what compute_counts_for_selection computed
    table                  \* what write_table_csv computed

vars == <<block_opts, op, pc, budget_int, refine_lexicographic, prune, min_budget,
          max_budget, steps, budgets, current_budget, seen, results, out, trace,
          status1, status2, proved, ret, points, mode, exc,
          blocks, params, selection, metrics, counts, table>>

\* the variables of the metrics model and of the reporting functions
reportVars == <<blocks, params, selection, metrics, counts, table>>

\* the variables of the optimizer, op and pc apart
solverVars == <<block_opts, budget_int, refine_lexicographic, prune, min_budget,
                max_budget, steps, budgets, current_budget, seen, results, out, trace,
                status1, status2, proved, ret, points, mode, exc>>

(***************************************************************************)
(* Bounds of the model.                                                    *)
(***************************************************************************)
MaxCost == 1      \* option costs range over 0..MaxCost
MaxSteps == 3     \* the steps argument ranges over 0..MaxSteps
MaxPts == 3       \* prune_points is applied to lists of at most MaxPts points

\* The shape of the optimizer's input: two blocks of at most two options each
\* (the scenario of the specification's examples), a block possibly without any
\* option, and CO2 values 0 and 1.
BlockIds == {1, 2}
OptCounts == {0, 1, 2}
Co2Values == {0, 1}

None == <<>>

IntPoints == (0..MaxCost) \X Co2Values

\* Renaming the options of a block, or the blocks, only renames the indices of a
\* selection, so the inputs hold one representative of each class: the options of a
\* block are distinct and in increasing (cost, co2) order, and so are the blocks.
PointCode(p) == 2 * p[1] + p[2] + 1

RECURSIVE ListCode(_)
ListCode(l) ==
    IF l = <<>> THEN 0 ELSE PointCode(Head(l)) + (2 * MaxCost + 3) * ListCode(Tail(l))

OptLists ==
    {l \in UNION {[1..n -> IntPoints] : n \in OptCounts} :
        \A k \in 1..(Len(l) - 1) : PointCode(l[k]) < PointCode(l[k + 1])}

BlockOptsInputs ==
    {bo \in [BlockIds -> OptLists] : ListCode(bo[1]) <= ListCode(bo[2])}

\* The largest total cost an assignment can have, and the budgets tried: one
\* below zero, and up to one above every achievable cost.
MaxTotalCost == Cardinality(BlockIds) * MaxCost
Budgets == (-1)..(MaxTotalCost + 1)

(***************************************************************************)
(* Helpers                                                                 *)
(***************************************************************************)
RECURSIVE SumSeq(_)
SumSeq(s) == IF s = <<>> THEN 0 ELSE Head(s) + SumSeq(Tail(s))

Min(S) == CHOOSE m \in S : \A y \in S : m <= y
Max(S) == CHOOSE m \in S : \A y \in S : m >= y

\* every block has at least one option
NonEmptyBlocks(bo) == \A b \in 1..Len(bo) : bo[b] # <<>>

(***************************************************************************)
(* build_model: the decision variables x[b][o] in {0, 1}, the per-block    *)
(* exactly-one constraints, the two linear totals and the budget           *)
(* constraint.  A model is represented by the set of variable valuations   *)
(* that satisfy its constraints.  budget is <<>> for None, <<B>> otherwise.*)
(***************************************************************************)
RECURSIVE x_vars(_, _)
x_vars(bo, n) ==
    IF n = 0 THEN {<<>>}
    ELSE {Append(p, xb) : p \in x_vars(bo, n - 1),
                          xb \in [1..Len(bo[n]) -> {0, 1}]}

\* sum(c_int * x) and sum(z_int * x) over all blocks and options
cost_expr(bo, x) ==
    SumSeq([b \in 1..Len(bo) |-> SumSeq([o \in 1..Len(bo[b]) |-> bo[b][o][1] * x[b][o]])])

co2_expr(bo, x) ==
    SumSeq([b \in 1..Len(bo) |-> SumSeq([o \in 1..Len(bo[b]) |-> bo[b][o][2] * x[b][o]])])

\* (a variant of ExactlyOne: the constraint written as sum(xb) >= 1)
AtLeastOne(xb) == SumSeq(xb) >= 1

\* model.Add(sum(xb) == 1)
ExactlyOne(xb) == SumSeq(xb) = 1

\* (a variant of BudgetConstraint: the budget constraint left out)
NoBudgetConstraint(bo, x, budget) == TRUE

\* model.Add(cost_expr <= budget_int), when a budget is given
BudgetConstraint(bo, x, budget) ==
    budget # None => cost_expr(bo, x) <= budget[1]

build_model(bo, budget) ==
    {x \in x_vars(bo, Len(bo)) :
        /\ \A b \in 1..Len(bo) : ExactlyOne(x[b])
        /\ BudgetConstraint(bo, x, budget)}

(***************************************************************************)
(* _solve: the statuses CP-SAT can end with on a model and an objective,   *)
(* each with the valuation it leaves, and the tuple _solve builds from it. *)
(***************************************************************************)
\* (a variant of Maximizers: no objective set, any valuation of the model is optimal)
MaximizersNoObjective(bo, model) == model

\* The valuations that reach the optimum of the objective over the model.
Maximizers(bo, model) ==
    {x \in model : \A y \in model : co2_expr(bo, y) <= co2_expr(bo, x)}

\* (a variant of Minimizers: no objective set, any valuation of the model is optimal)
MinimizersNoObjective(bo, model) == model

Minimizers(bo, model) ==
    {x \in model : \A y \in model : cost_expr(bo, y) >= cost_expr(bo, x)}

\* solver.Solve(model) under the 10 s limit: OPTIMAL with an optimal valuation,
\* FEASIBLE with any valuation of the model (optimality not proved), INFEASIBLE
\* when the model has none, UNKNOWN when the limit elapsed before either.
SolverOutcomes(model, optimal) ==
    {[status |-> "OPTIMAL", x |-> x] : x \in optimal}
    \cup {[status |-> "FEASIBLE", x |-> x] : x \in model}
    \cup (IF model = {} THEN {[status |-> "INFEASIBLE", x |-> <<>>]} ELSE {})
    \cup {[status |-> "UNKNOWN", x |-> <<>>]}

\* the selection loop of _solve: per block, the first option whose variable is 1
SelectionOf(x) ==
    [b \in 1..Len(x) |->
        IF \E o \in 1..Len(x[b]) : x[b][o] = 1
        THEN Min({o \in 1..Len(x[b]) : x[b][o] = 1}) - 1
        ELSE 0]

\* (a variant of _solve: a FEASIBLE status treated as no solution)
_solveOptimalOnly(bo, outcome) ==
    IF outcome.status # "OPTIMAL"
    THEN None
    ELSE <<cost_expr(bo, outcome.x), co2_expr(bo, outcome.x), SelectionOf(outcome.x)>>

\* what _solve returns for one solver outcome
_solve(bo, outcome) ==
    IF outcome.status \notin {"OPTIMAL", "FEASIBLE"}
    THEN None
    ELSE <<cost_expr(bo, outcome.x), co2_expr(bo, outcome.x), SelectionOf(outcome.x)>>

(***************************************************************************)
(* solve_max_co2_under_budget: every way one call can end, as a record of  *)
(* the status of the first solve, the status of the second solve ("-" when *)
(* it is not run) and the value returned.                                  *)
(***************************************************************************)
\* model2: model.Add(co22 == z1) on top of a fresh build_model
Model2(bo, budget, z1) ==
    {x \in build_model(bo, <<budget>>) : co2_expr(bo, x) = z1}

Step2Outcomes(bo, budget, s1, z1) ==
    LET model2 == Model2(bo, budget, z1) IN
    {[status1 |-> s1, status2 |-> o2.status, res |-> _solve(bo, o2)] :
        o2 \in SolverOutcomes(model2, Minimizers(bo, model2))}

solve_max_co2_under_budget(bo, budget, refine) ==
    LET model1 == build_model(bo, <<budget>>)
        first == SolverOutcomes(model1, Maximizers(bo, model1))
    IN  UNION {
            LET res1 == _solve(bo, o1) IN
            IF res1 = None \/ ~refine
            THEN {[status1 |-> o1.status, status2 |-> "-", res |-> res1]}
            ELSE Step2Outcomes(bo, budget, o1.status, res1[2])
          : o1 \in first}

\* Whether every CP-SAT solve of one call proved its answer.
Proved(o) ==
    /\ o.status1 \in {"OPTIMAL", "INFEASIBLE"}
    /\ o.status2 \in {"-", "OPTIMAL", "INFEASIBLE"}

(***************************************************************************)
(* prune_points: a stable sort by cost, then one pass that keeps a point   *)
(* only when its CO2 exceeds the best CO2 kept so far.                     *)
(***************************************************************************)
\* insertion of p behind every element whose cost is <= its own (list.sort is stable)
RECURSIVE InsertByCost(_, _)
InsertByCost(s, p) ==
    IF s = <<>> THEN <<p>>
    ELSE IF Head(s)[1] <= p[1] THEN <<Head(s)>> \o InsertByCost(Tail(s), p)
    ELSE <<p>> \o s

\* points.sort(key=lambda t: t[0])
RECURSIVE SortByCost(_)
SortByCost(s) ==
    IF s = <<>> THEN <<>>
    ELSE InsertByCost(SortByCost(SubSeq(s, 1, Len(s) - 1)), s[Len(s)])

\* the test of the pruning loop: z > best_co2
KeepPoint(z, best_co2) == z > best_co2

\* the loop over the sorted points; best is <<>> for the initial -10**18, which is
\* below every CO2 value of the model
RECURSIVE PruneLoop(_, _)
PruneLoop(s, best) ==
    IF s = <<>> THEN <<>>
    ELSE IF best = <<>> \/ KeepPoint(Head(s)[2], best[1])
         THEN <<Head(s)>> \o PruneLoop(Tail(s), <<Head(s)[2]>>)
         ELSE PruneLoop(Tail(s), best)

prune_points(pts) == IF pts = <<>> THEN pts ELSE PruneLoop(SortByCost(pts), <<>>)

(***************************************************************************)
(* The state machine                                                       *)
(***************************************************************************)
Start ==
    /\ op = "none"
    /\ pc = "idle"
    /\ budget_int = 0
    /\ refine_lexicographic = FALSE
    /\ prune = FALSE
    /\ min_budget = 0
    /\ max_budget = 0
    /\ steps = 0
    /\ budgets = <<>>
    /\ current_budget = 0
    /\ seen = {}
    /\ results = <<>>
    /\ out = <<>>
    /\ trace = <<>>
    /\ status1 = "-"
    /\ status2 = "-"
    /\ proved = TRUE
    /\ ret = None
    /\ mode = "none"
    /\ exc = "none"

\* no block loaded, nothing reported
NoReport ==
    /\ blocks = <<>>
    /\ params = <<>>
    /\ selection = <<>>
    /\ metrics = <<>>
    /\ counts = <<>>
    /\ table = <<>>

Init ==
    /\ block_opts \in BlockOptsInputs
    /\ points = <<>>
    /\ Start
    /\ NoReport

\* A direct call of solve_max_co2_under_budget(block_opts, B, refine).
SolveCall ==
    /\ op = "none"
    /\ \E B \in Budgets, refine \in BOOLEAN :
         \E o \in solve_max_co2_under_budget(block_opts, B, refine) :
            /\ budget_int' = B
            /\ refine_lexicographic' = refine
            /\ trace' = <<[budget |-> B, res |-> o.res]>>
            /\ status1' = o.status1
            /\ status2' = o.status2
            /\ proved' = Proved(o)
            /\ ret' = o.res
    /\ op' = "solve"
    /\ pc' = "done"
    /\ UNCHANGED <<block_opts, prune, min_budget, max_budget, steps, budgets,
                   current_budget, seen, results, out, points, mode, exc, reportVars>>

(***************************************************************************)
(* frontier_by_budget_tight                                                *)
(***************************************************************************)
\* (a variant of IsNew: every result is kept)
IsNewAlways(key, keys) == TRUE

\* the dedup test of both sweeps: key not in seen
IsNew(key, keys) == key \notin keys

\* (a variant of NextBudget: the budget tightened by two)
NextBudgetSkip(c) == c - 2

\* (a variant of NextBudget: the budget set to the achieved cost)
NextBudgetSame(c) == c

\* the budget solved after a solve that achieved cost c
NextBudget(c) == c - 1

\* the test that ends the sweep after a solve: next_budget < 0 or not below current
TightBreak(next_budget, current) == next_budget < 0 \/ next_budget >= current

TightStart ==
    /\ op = "none"
    /\ \E B \in Budgets, refine \in BOOLEAN :
         /\ max_budget' = B
         /\ current_budget' = B
         /\ refine_lexicographic' = refine
    /\ op' = "tight"
    /\ pc' = "loop"
    /\ results' = <<>>
    /\ seen' = {}
    /\ UNCHANGED <<block_opts, budget_int, prune, min_budget, steps, budgets, out,
                   trace, status1, status2, proved, ret, points, mode, exc, reportVars>>

\* One iteration of the while loop: a solve at current_budget, the dedup of its
\* result, and the tightening of the budget.
TightIter ==
    /\ op = "tight"
    /\ pc = "loop"
    /\ current_budget >= 0
    /\ \E o \in solve_max_co2_under_budget(block_opts, current_budget, refine_lexicographic) :
         /\ trace' = Append(trace, [budget |-> current_budget, res |-> o.res])
         /\ proved' = (proved /\ Proved(o))
         /\ IF o.res = None
            THEN /\ pc' = "exit"
                 /\ UNCHANGED <<seen, results, current_budget>>
            ELSE LET c == o.res[1]
                     z == o.res[2]
                     key == <<c, z>>
                     next_budget == NextBudget(c)
                 IN  /\ IF IsNew(key, seen)
                        THEN /\ seen' = seen \cup {key}
                             /\ results' = Append(results, o.res)
                        ELSE UNCHANGED <<seen, results>>
                     /\ IF TightBreak(next_budget, current_budget)
                        THEN /\ pc' = "exit"
                             /\ UNCHANGED current_budget
                        ELSE /\ pc' = "loop"
                             /\ current_budget' = next_budget
    /\ UNCHANGED <<block_opts, op, budget_int, refine_lexicographic, prune, min_budget,
                   max_budget, steps, budgets, out, status1, status2, ret, points,
                   mode, exc, reportVars>>

\* The loop is left (a break, or current_budget < 0) and the function returns:
\* return prune_points(results) if prune else results.  The prune argument is read
\* here only.
TightReturn ==
    /\ op = "tight"
    /\ pc = "exit" \/ (pc = "loop" /\ current_budget < 0)
    /\ \E pr \in BOOLEAN :
         /\ prune' = pr
         /\ ret' = IF pr THEN prune_points(results) ELSE results
    /\ pc' = "done"
    /\ UNCHANGED <<block_opts, op, budget_int, refine_lexicographic, min_budget,
                   max_budget, steps, budgets, current_budget, seen, results, out,
                   trace, status1, status2, proved, points, mode, exc, reportVars>>

(***************************************************************************)
(* frontier_by_budget_steps                                                *)
(***************************************************************************)
\* Python's round() of the rational n / d (d > 0): to the nearest integer, a tie
\* going to the even neighbour.
RoundHalfEven(n, d) ==
    LET q == n \div d
        r == n % d
    IN  IF 2 * r < d THEN q
        ELSE IF 2 * r > d THEN q + 1
        ELSE IF q % 2 = 0 THEN q ELSE q + 1

\* if steps <= 1: steps = 2
FixSteps(s) == IF s <= 1 THEN 2 ELSE s

\* (a variant of BudgetList: the interval divided by steps instead of steps - 1)
BudgetListBySteps(lo, hi, s) ==
    [k \in 1..s |-> RoundHalfEven(lo * s + (k - 1) * (hi - lo), s)]

\* (a variant of BudgetList: every sample one unit lower)
BudgetListBelow(lo, hi, s) ==
    [k \in 1..s |-> RoundHalfEven(lo * (s - 1) + (k - 1) * (hi - lo), s - 1) - 1]

\* [int(round(min_budget + i * (max_budget - min_budget) / (steps - 1)))
\*  for i in range(steps)], s being the fixed step count.  The float expression
\* equals the rational (min*(s-1) + i*(max-min)) / (s-1) at the magnitudes of the
\* model (all far below 2**53).
BudgetList(lo, hi, s) ==
    [k \in 1..s |-> RoundHalfEven(lo * (s - 1) + (k - 1) * (hi - lo), s - 1)]

\* The entry of frontier_by_budget_steps(block_opts, lo, hi, s, refine): the step
\* fix and the list of budgets.  The variable steps keeps the argument as passed;
\* m is the mode of the command line when the call comes from main(), and "none"
\* for a direct call.
StepsEntryIn(lo, hi, s, refine, m) ==
    /\ op = "none"
    /\ min_budget' = lo
    /\ max_budget' = hi
    /\ steps' = s
    /\ budgets' = BudgetList(lo, hi, FixSteps(s))
    /\ refine_lexicographic' = refine
    /\ op' = "steps"
    /\ pc' = "loop"
    /\ seen' = {}
    /\ out' = <<>>
    /\ mode' = m
    /\ UNCHANGED <<block_opts, budget_int, prune, current_budget, results, trace,
                   status1, status2, proved, ret, points, exc, reportVars>>

StepsEntry(lo, hi, s, refine) == StepsEntryIn(lo, hi, s, refine, "none")

\* A call with any budget interval lo <= hi.
StepsStart ==
    \E lo \in Budgets, hi \in Budgets, s \in 0..MaxSteps, refine \in BOOLEAN :
        /\ lo <= hi
        /\ StepsEntry(lo, hi, s, refine)

\* sum(min(c for (c, _) in opts) for opts in block_opts) and the same with max,
\* for blocks that all have an option (min() and max() of an empty sequence raise
\* ValueError)
CheapestTotal(bo) ==
    SumSeq([b \in 1..Len(bo) |-> Min({bo[b][o][1] : o \in 1..Len(bo[b])})])

CostliestTotal(bo) ==
    SumSeq([b \in 1..Len(bo) |-> Max({bo[b][o][1] : o \in 1..Len(bo[b])})])

\* A direct call over the achievable costs: from 0 or from the cheapest total, up
\* to the costliest total; from 0 to MaxTotalCost when a block has no option.
StepsStartEnds ==
    \E s \in 0..MaxSteps, refine \in BOOLEAN :
        IF NonEmptyBlocks(block_opts)
        THEN \E lo \in {0, CheapestTotal(block_opts)} :
                StepsEntry(lo, CostliestTotal(block_opts), s, refine)
        ELSE StepsEntry(0, MaxTotalCost, s, refine)

\* One iteration of "for B in budgets": the solves done so far give the position.
StepsIter ==
    /\ op = "steps"
    /\ pc = "loop"
    /\ Len(trace) < Len(budgets)
    /\ LET B == budgets[Len(trace) + 1] IN
       \E o \in solve_max_co2_under_budget(block_opts, B, refine_lexicographic) :
         /\ trace' = Append(trace, [budget |-> B, res |-> o.res])
         /\ proved' = (proved /\ Proved(o))
         /\ IF o.res = None
            THEN UNCHANGED <<seen, out>>
            ELSE LET key == <<o.res[1], o.res[2]>> IN
                 IF IsNew(key, seen)
                 THEN /\ seen' = seen \cup {key}
                      /\ out' = Append(out, o.res)
                 ELSE UNCHANGED <<seen, out>>
    /\ UNCHANGED <<block_opts, op, pc, budget_int, refine_lexicographic, prune,
                   min_budget, max_budget, steps, budgets, current_budget, results,
                   status1, status2, ret, points, mode, exc, reportVars>>

\* The loop is exhausted: return prune_points(out) if prune else out.  The prune
\* argument is read here only; main() leaves it at its default, False.
StepsReturn ==
    /\ op = "steps"
    /\ pc = "loop"
    /\ Len(trace) = Len(budgets)
    /\ \E pr \in (IF mode = "none" THEN BOOLEAN ELSE {FALSE}) :
         /\ prune' = pr
         /\ ret' = IF pr THEN prune_points(out) ELSE out
    /\ pc' = "done"
    /\ UNCHANGED <<block_opts, op, budget_int, refine_lexicographic, min_budget,
                   max_budget, steps, budgets, current_budget, seen, results, out,
                   trace, status1, status2, proved, points, mode, exc, reportVars>>

(***************************************************************************)
(* prune_points called on its own                                          *)
(***************************************************************************)
\* the (cost, co2, selection) points handed to prune_points
PrunePoints == (0..MaxCost) \X Co2Values \X {<<0>>, <<1>>}

PruneInputs == UNION {[1..n -> PrunePoints] : n \in 0..MaxPts}

\* prune_points(points): the list is sorted in place, the pruned list returned
PruneCall ==
    /\ op = "none"
    /\ points' = (IF points = <<>> THEN points ELSE SortByCost(points))
    /\ ret' = prune_points(points)
    /\ op' = "prune"
    /\ pc' = "done"
    /\ UNCHANGED <<block_opts, budget_int, refine_lexicographic, prune, min_budget,
                   max_budget, steps, budgets, current_budget, seen, results, out,
                   trace, status1, status2, proved, mode, exc, reportVars>>

(***************************************************************************)
(* cli.py: the import of the module                                        *)
(***************************************************************************)
\* the names ortools_solver.py binds at module level
OrtoolsSolverNames ==
    {"dataclass", "List", "Sequence", "Tuple", "Optional", "cp_model",
     "IntPoint", "Scale", "scale_points", "build_model", "prune_points", "_solve",
     "solve_max_co2_under_budget", "frontier_by_budget_tight",
     "frontier_by_budget_steps"}

\* from .ortools_solver import (...)
CliSolverImports ==
    {"Scale", "scale_points", "frontier_by_budget_steps",
     "solve_max_co2_under_budget", "solve_min_cost_above_co2",
     "solve_both_constraints"}

\* the choices of --mode
Modes == {"frontier-steps", "max-co2-under-budget", "min-cost-above-co2",
          "both-constraints"}

\* Running the command line in some mode: the module's imports are executed first,
\* and a name the solver module does not bind raises ImportError before main().
CliImport ==
    /\ op = "none"
    /\ \E m \in Modes : mode' = m
    /\ op' = "cli"
    /\ IF CliSolverImports \subseteq OrtoolsSolverNames
       THEN /\ pc' = "main"
            /\ exc' = "none"
       ELSE /\ pc' = "done"
            /\ exc' = "ImportError"
    /\ UNCHANGED <<block_opts, budget_int, refine_lexicographic, prune, min_budget,
                   max_budget, steps, budgets, current_budget, seen, results, out,
                   trace, status1, status2, proved, ret, points, reportVars>>

(***************************************************************************)
(* cli.py: main(), from the scaled options on.  block_opts is              *)
(* int_block_opts; an amount of euros is counted in thousandths.  The      *)
(* points written to --out are the results held by ret, in order (none     *)
(* when ret is empty); the selection and table files then hold their       *)
(* header only.                                                            *)
(***************************************************************************)
\* scale = Scale(cost=1000, co2=1000): scale.cost
ScaleCost == 1000

\* int(round(args.budget_max * scale.cost)), args.budget_max being
\* thousandths / 1000 euros
BudgetInt(thousandths) == RoundHalfEven(thousandths * ScaleCost, 1000)

\* --mode max-co2-under-budget: --budget-max is required; one solve with the
\* default refine_lexicographic=False; without solution the outputs are written
\* empty, otherwise the single point is written.
CliMaxCo2 ==
    /\ op = "none"
    /\ op' = "cli"
    /\ pc' = "done"
    /\ mode' = "max-co2-under-budget"
    /\ \E budget_max \in {None} \cup {<<B>> : B \in Budgets} :
         IF budget_max = None
         THEN /\ exc' = "SystemExit"
              /\ UNCHANGED <<budget_int, trace, status1, status2, proved, ret>>
         ELSE \E sol \in solve_max_co2_under_budget(block_opts,
                                                     BudgetInt(budget_max[1]), FALSE) :
                /\ budget_int' = BudgetInt(budget_max[1])
                /\ trace' = <<[budget |-> BudgetInt(budget_max[1]), res |-> sol.res]>>
                /\ status1' = sol.status1
                /\ status2' = sol.status2
                /\ proved' = Proved(sol)
                /\ ret' = IF sol.res = None THEN <<>> ELSE <<sol.res>>
                /\ exc' = "none"
    /\ UNCHANGED <<block_opts, refine_lexicographic, prune, min_budget, max_budget,
                   steps, budgets, current_budget, seen, results, out, points, reportVars>>

\* --mode frontier-steps with --budget-steps given (1..MaxSteps): min_budget and
\* max_budget are summed over the blocks, min() raising ValueError on a block
\* without options, and frontier_by_budget_steps is called with
\* steps=max(budget_steps, 2) and its defaults refine_lexicographic=False,
\* prune=False.  StepsIter and StepsReturn continue the run.
CliFrontierSteps ==
    /\ op = "none"
    /\ \E budget_steps \in 1..MaxSteps :
         IF \E b \in 1..Len(block_opts) : block_opts[b] = <<>>
         THEN /\ op' = "cli"
              /\ pc' = "done"
              /\ mode' = "frontier-steps"
              /\ exc' = "ValueError"
              /\ UNCHANGED <<block_opts, budget_int, refine_lexicographic, prune,
                             min_budget, max_budget, steps, budgets, current_budget,
                             seen, results, out, trace, status1, status2, proved,
                             ret, points, reportVars>>
         ELSE StepsEntryIn(CheapestTotal(block_opts), CostliestTotal(block_opts),
                           Max({budget_steps, 2}), FALSE, "frontier-steps")

(***************************************************************************)
(* model.py and the reporting functions of cli.py.                         *)
(*                                                                         *)
(* Numbers are exact: an area_m2 is a whole number of m2, a res_pct or     *)
(* nbs_pct is counted in tenths (4 is 0.4), a coverage in percent, and a   *)
(* covered area (area * coverage * pct) in thousandths of a m2.  At the    *)
(* values of the model the float results of the code are these exact       *)
(* values.  A cell_type string is a record: its word, whether it has       *)
(* upper-case letters, whether it has surrounding whitespace; the word     *)
(* "None" stands for a block without cell_type.                            *)
(***************************************************************************)
CellTypes ==
    {[word |-> "None", upper |-> FALSE, ws |-> FALSE]}
    \cup [word : {"roof", "ground"}, upper : BOOLEAN, ws : BOOLEAN]

\* (cell_type or "")
OrEmpty(ct) == IF ct.word = "None" THEN [word |-> "", upper |-> FALSE, ws |-> FALSE] ELSE ct

\* str.strip() and str.lower()
Strip(str) == [str EXCEPT !.ws = FALSE]
Lower(str) == [str EXCEPT !.upper = FALSE]

\* the string literal w
Lit(w) == [word |-> w, upper |-> FALSE, ws |-> FALSE]

\* the blocks the loader hands over: area_m2 and cell_type
Areas == {5, 100}
BlockRecords == [area_m2 : Areas, cell_type : CellTypes]

\* the options of the catalog, offered to every block: res_pct and nbs_pct in
\* tenths
MixCatalog ==
    << [res_pct |-> 10, nbs_pct |-> 0], [res_pct |-> 4, nbs_pct |-> 4],
       [res_pct |-> 0, nbs_pct |-> 10] >>

\* Params: the layout and load defaults of the dataclass and small intensities,
\* with the roof coverage override absent or given, tree_weight zero or not, two
\* roof load limits, and a discount that reaches its floor of one half (in
\* thousandths) at four units.
ParamSets ==
    [cost_res : {2}, co2_res : {7}, cost_nbs : {6}, co2_nbs : {3},
     pct_covered_by_NBS_RES : {50}, pct_covered_roof : {-1, 100},
     pct_covered_ground : {-1}, tree_cover_area : {5}, res_cell_area : {5},
     tree_weight : {0, 400}, max_roof_load : {10, 100},
     res_cost_floor : {500}, nbs_cost_floor : {500},
     res_discount_units : {4}, nbs_discount_units : {4}]

\* max(0.0, min(100.0, pct))
ClampPct(pct) == Max({0, Min({100, pct})})

\* coverage_for_type(p, cell_type), in percent
coverage_for_type(p, cell_type) ==
    LET ct == Lower(Strip(OrEmpty(cell_type))) IN
    IF ct = Lit("roof") /\ p.pct_covered_roof >= 0 THEN ClampPct(p.pct_covered_roof)
    ELSE IF ct = Lit("ground") /\ p.pct_covered_ground >= 0
         THEN ClampPct(p.pct_covered_ground)
    ELSE ClampPct(p.pct_covered_by_NBS_RES)

\* area * cov * max(0.0, pct), in thousandths of a m2
CoveredArea(area, cov, pct) == area * cov * Max({0, pct})

\* int(eff_nbs_area // max(1e-9, tree_cover_area)), tree_cover_area being a whole
\* number of m2, at least 1
TreesByFootprint(eff_nbs_area, p) == eff_nbs_area \div (1000 * p.tree_cover_area)

\* int((eff_nbs_area * max_roof_load) // tree_weight)
LoadCap(eff_nbs_area, p) == (eff_nbs_area * p.max_roof_load) \div (1000 * p.tree_weight)

\* (a variant of CapTrees: the cap never applied)
CapTreesNever(trees, is_roof, eff_nbs_area, p) == trees

\* if <roof test> and tree_weight > 0: trees = min(trees, load_cap)
CapTrees(trees, is_roof, eff_nbs_area, p) ==
    IF is_roof /\ p.tree_weight > 0
    THEN IF trees > LoadCap(eff_nbs_area, p) THEN LoadCap(eff_nbs_area, p) ELSE trees
    ELSE trees

\* compute_block_option_metrics(area_m2, res_pct, nbs_pct, cell_type, p): the RES
\* area and the tree count it works with, and the (cost, co2) it returns, cost
\* and co2 in thousandths.  The roof test lower-cases cell_type without stripping it.
compute_block_option_metrics(area_m2, res_pct, nbs_pct, cell_type, p) ==
    LET cov == coverage_for_type(p, cell_type)
        res_area == Max({0, CoveredArea(area_m2, cov, res_pct)})
        eff_nbs_area == Max({0, CoveredArea(area_m2, cov, nbs_pct)})
        trees == CapTrees(TreesByFootprint(eff_nbs_area, p),
                          Lower(OrEmpty(cell_type)) = Lit("roof"), eff_nbs_area, p)
    IN  [res_area |-> res_area,
         trees |-> trees,
         cost |-> res_area * p.cost_res + 1000 * trees * p.cost_nbs,
         co2 |-> res_area * p.co2_res + 1000 * trees * p.co2_nbs]

\* The per-block recomputation shared by compute_counts_for_selection and
\* write_table_csv: the RES area and the tree count of block b under its selected
\* option.  The roof test strips and lower-cases cell_type.
SelectedRow(b, o, p) ==
    LET cell_type == Lower(Strip(OrEmpty(b.cell_type)))
        cov == coverage_for_type(p, cell_type)
        res_area == CoveredArea(b.area_m2, cov, o.res_pct)
        eff_nbs_area == CoveredArea(b.area_m2, cov, o.nbs_pct)
        trees == CapTrees(TreesByFootprint(eff_nbs_area, p),
                          cell_type = Lit("roof"), eff_nbs_area, p)
    IN  [res_area |-> res_area, trees |-> trees]

\* int(res_area // max(1e-9, res_cell_area)), res_cell_area being a whole number
\* of m2, at least 1
ResUnits(res_area, p) == res_area \div (1000 * p.res_cell_area)

\* compute_counts_for_selection(blocks, block_options, selection, params), with
\* the per-block values it went through
compute_counts_for_selection(bs, block_options, sel, p) ==
    LET rows == [i \in 1..Len(sel) |->
                    SelectedRow(bs[i], block_options[i][sel[i] + 1], p)]
        total_res_area == SumSeq([i \in 1..Len(sel) |-> rows[i].res_area])
        total_trees == SumSeq([i \in 1..Len(sel) |-> rows[i].trees])
    IN  [n_res_units |-> ResUnits(total_res_area, p),
         n_trees |-> total_trees,
         total_res_area |-> total_res_area,
         rows |-> rows]

\* discount_factor(floor, n, N) = 1 - (1 - floor) * min(max(0, n) / N, 1), as the
\* fraction <<numerator, denominator>>; floor in thousandths
discount_factor(floor, n, N) ==
    IF N <= 0 THEN <<1, 1>>
    ELSE <<1000 * N - (1000 - floor) * Min({Max({0, n}), N}), 1000 * N>>

\* write_points_with_counts: the RES and NBS factors of one point, from its counts
PointFactors(cnt, p) ==
    [res_factor |-> discount_factor(p.res_cost_floor, cnt.n_res_units, p.res_discount_units),
     nbs_factor |-> discount_factor(p.nbs_cost_floor, cnt.n_trees, p.nbs_discount_units)]

\* write_table_csv: total_res_units += int(res_area // max(1e-9, res_cell_area)),
\* block by block
TableResUnits(rows, p) ==
    SumSeq([i \in 1..Len(rows) |-> ResUnits(rows[i].res_area, p)])

\* write_table_csv(path, blocks, block_options, selection, params): the rows and
\* the portfolio values it writes; a discounted cost is the fraction
\* <<numerator, denominator>> of thousandths
write_table_csv(bs, block_options, sel, p) ==
    LET rows == [i \in 1..Len(sel) |->
                    SelectedRow(bs[i], block_options[i][sel[i] + 1], p)]
        sum_trees == SumSeq([i \in 1..Len(sel) |-> rows[i].trees])
        total_res_units == TableResUnits(rows, p)
        res_factor == discount_factor(p.res_cost_floor, total_res_units,
                                      p.res_discount_units)
        nbs_factor == discount_factor(p.nbs_cost_floor, sum_trees,
                                      p.nbs_discount_units)
    IN  [rows |-> [i \in 1..Len(sel) |->
                     [res_area |-> rows[i].res_area,
                      trees |-> rows[i].trees,
                      disc_res_cost |-> <<rows[i].res_area * p.cost_res * res_factor[1],
                                          res_factor[2]>>,
                      disc_nbs_cost |-> <<1000 * rows[i].trees * p.cost_nbs * nbs_factor[1],
                                          nbs_factor[2]>>]],
         sum_trees |-> sum_trees,
         sum_res_area |-> SumSeq([i \in 1..Len(sel) |-> rows[i].res_area]),
         total_res_units |-> total_res_units,
         res_factor |-> res_factor,
         nbs_factor |-> nbs_factor]

\* block_opt_refs of build_block_options: the catalog, for every block
BlockOptRefs(bs) == [i \in 1..Len(bs) |-> MixCatalog]

\* build_block_options(blocks, options, params): compute_block_option_metrics for
\* every block and every option of it
BuildBlockOptions ==
    /\ op = "none"
    /\ op' = "report"
    /\ pc' = "built"
    /\ metrics' = [i \in 1..Len(blocks) |->
                     [k \in 1..Len(MixCatalog) |->
                        compute_block_option_metrics(blocks[i].area_m2,
                            MixCatalog[k].res_pct, MixCatalog[k].nbs_pct,
                            blocks[i].cell_type, params)]]
    /\ UNCHANGED <<solverVars, blocks, params, selection, counts, table>>

\* the frontier path: compute_counts_for_selection on a selection of the result
CountsCall ==
    /\ op = "report"
    /\ pc = "built"
    /\ pc' = "counted"
    /\ counts' = compute_counts_for_selection(blocks, BlockOptRefs(blocks), selection,
                                              params)
    /\ UNCHANGED <<solverVars, op, blocks, params, selection, metrics, table>>

\* the single-solution path: write_table_csv on the selection of the solution
TableCall ==
    /\ op = "report"
    /\ pc = "built"
    /\ pc' = "tabled"
    /\ table' = write_table_csv(blocks, BlockOptRefs(blocks), selection, params)
    /\ UNCHANGED <<solverVars, op, blocks, params, selection, metrics, counts>>

(***************************************************************************)
(* Specifications                                                          *)
(***************************************************************************)
\* The single solve and the command line, on every input.
Next == SolveCall \/ CliImport

Spec == Init /\ [][Next]_vars

\* The two sweeps, on every input.
NextSweep ==
    \/ TightStart
    \/ TightIter
    \/ TightReturn
    \/ StepsStartEnds
    \/ StepsIter
    \/ StepsReturn

SpecSweep == Init /\ [][NextSweep]_vars

\* main() in the modes whose solver functions exist, on every input.
NextCli == CliMaxCo2 \/ CliFrontierSteps \/ StepsIter \/ StepsReturn

SpecCli == Init /\ [][NextCli]_vars

\* The metrics model and the reporting functions, on two blocks of every area
\* and cell type, every selection and every parameter set.
InitReport ==
    /\ block_opts = <<>>
    /\ points = <<>>
    /\ Start
    /\ blocks \in [BlockIds -> BlockRecords]
    /\ params \in ParamSets
    /\ selection \in [BlockIds -> 0..(Len(MixCatalog) - 1)]
    /\ metrics = <<>>
    /\ counts = <<>>
    /\ table = <<>>

NextReport == BuildBlockOptions \/ CountsCall \/ TableCall

SpecReport == InitReport /\ [][NextReport]_vars

\* The uniform sweep over every budget interval, on blocks of one option each.
InitBudgets ==
    /\ block_opts \in {bo \in BlockOptsInputs : \A b \in BlockIds : Len(bo[b]) = 1}
    /\ points = <<>>
    /\ Start
    /\ NoReport

NextBudgets == StepsStart \/ StepsIter \/ StepsReturn

SpecBudgets == InitBudgets /\ [][NextBudgets]_vars

\* prune_points on every list of points.
InitPrune ==
    /\ block_opts = <<>>
    /\ Start
    /\ points \in PruneInputs
    /\ NoReport

NextPrune == PruneCall

SpecPrune == InitPrune /\ [][NextPrune]_vars

(***************************************************************************)
(* Properties                                                              *)
(***************************************************************************)
\* The assignments of one option per block, as 0-based indices, and their totals,
\* stated on the options directly (not on the decision variables).
Selections(bo) ==
    {sel \in [1..Len(bo) -> 0..Max(OptCounts)] :
        \A b \in 1..Len(bo) : sel[b] < Len(bo[b])}

SelCost(bo, sel) == SumSeq([b \in 1..Len(bo) |-> bo[b][sel[b] + 1][1]])
SelCo2(bo, sel) == SumSeq([b \in 1..Len(bo) |-> bo[b][sel[b] + 1][2]])

WithinBudget(bo, B) == {sel \in Selections(bo) : SelCost(bo, sel) <= B}

\* the largest total CO2 of an assignment within budget B (there must be one)
BestCo2(bo, B) == Max({SelCo2(bo, sel) : sel \in WithinBudget(bo, B)})

SolveDone == op = "solve" /\ pc = "done"

\* C1: whenever solve_max_co2_under_budget returns a result, with or without
\* the lexicographic refinement, the returned total cost is at most the budget.
C1_CostWithinBudget ==
    (SolveDone /\ ret # None) => ret[1] <= budget_int

\* C1 witness: a refined solve returned a result that spends a positive budget
\* entirely, while a costlier assignment exists.
C1_Witness ==
    /\ SolveDone
    /\ ret # None
    /\ refine_lexicographic
    /\ budget_int > 0
    /\ ret[1] = budget_int
    /\ \E sel \in Selections(block_opts) : SelCost(block_opts, sel) > budget_int

\* C2: when the solver proves optimality, the total CO2 returned equals the
\* maximum total CO2 over the assignments of one option per block whose total
\* cost is at most the budget.
C2_MaxCo2UnderBudget ==
    (SolveDone /\ ret # None /\ status1 = "OPTIMAL")
        => ret[2] = BestCo2(block_opts, budget_int)

\* C2 witness: an optimal solve whose budget excludes an assignment with more CO2
\* and admits one with less.
C2_Witness ==
    /\ SolveDone
    /\ ret # None
    /\ status1 = "OPTIMAL"
    /\ \E sel \in Selections(block_opts) :
          /\ SelCost(block_opts, sel) > budget_int
          /\ SelCo2(block_opts, sel) > ret[2]
    /\ \E sel \in WithinBudget(block_opts, budget_int) :
          SelCo2(block_opts, sel) < ret[2]

\* C3: every result returned by a solve carries a selection with exactly one
\* index per block, each a valid position in the block's option list, and the
\* returned totals are the sums of the cost and the CO2 of the options selected.
C3_SelectionConsistent ==
    \A k \in 1..Len(trace) :
        LET res == trace[k].res IN
        res # None =>
            /\ Len(res[3]) = Len(block_opts)
            /\ \A b \in 1..Len(block_opts) :
                  res[3][b] \in 0..(Len(block_opts[b]) - 1)
            /\ res[1] = SumSeq([b \in 1..Len(block_opts) |->
                                   block_opts[b][res[3][b] + 1][1]])
            /\ res[2] = SumSeq([b \in 1..Len(block_opts) |->
                                   block_opts[b][res[3][b] + 1][2]])

\* C3 witness: a solve returned a selection that names the second option of one
\* block and the first of the other, with a positive total cost and CO2.
C3_Witness ==
    /\ SolveDone
    /\ ret # None
    /\ ret[3] = <<1, 0>>
    /\ ret[1] > 0
    /\ ret[2] > 0

\* a CP-SAT solve of the call ended UNKNOWN: the time limit elapsed before an
\* assignment was found or infeasibility was proved
SomeUnknown == status1 = "UNKNOWN" \/ status2 = "UNKNOWN"

\* C4 (as claimed): solve_max_co2_under_budget returns None exactly when no
\* assignment of one option per block has a total cost within the budget, that is
\* (every block having an option) when the budget is below the sum of the blocks'
\* cheapest options; for every budget at or above that sum it returns a result.
C4_NoneIffInfeasible ==
    SolveDone =>
        /\ (ret = None) <=> (WithinBudget(block_opts, budget_int) = {})
        /\ NonEmptyBlocks(block_opts) =>
              ((ret = None) <=> (budget_int < CheapestTotal(block_opts)))

\* C4 (amended): solve_max_co2_under_budget returns None exactly when no
\* assignment of one option per block has a total cost within the budget or a
\* CP-SAT solve of the call ended with status UNKNOWN; no assignment is within the
\* budget exactly (every block having an option) when the budget is below the sum
\* of the blocks' cheapest options.
C4_NoneIffInfeasibleOrUnknown ==
    SolveDone =>
        /\ (ret = None) <=> (WithinBudget(block_opts, budget_int) = {} \/ SomeUnknown)
        /\ NonEmptyBlocks(block_opts) =>
              ((WithinBudget(block_opts, budget_int) = {})
                  <=> (budget_int < CheapestTotal(block_opts)))

\* C4 witness: every block has an option, the budget is not negative and below the
\* cheapest total, and the solve, proved infeasible, returned None.
C4_Witness ==
    /\ SolveDone
    /\ NonEmptyBlocks(block_opts)
    /\ budget_int >= 0
    /\ budget_int < CheapestTotal(block_opts)
    /\ status1 = "INFEASIBLE"
    /\ ret = None

\* C5: the optimizer supports the CO2-floor modes (solve_min_cost_above_co2 and
\* solve_both_constraints, called by the min-cost-above-co2 and both-constraints
\* modes of the command line): a run in one of these modes gets to its solve, it
\* does not end on an exception.
C5_FloorModesSupported ==
    (op = "cli" /\ mode \in {"min-cost-above-co2", "both-constraints"})
        => exc = "none"

SweepDone == op \in {"tight", "steps"} /\ pc = "done"

PairOf(r) == <<r[1], r[2]>>

\* the results the solves of the sweep returned, in call order
ReturnedOf(tr) ==
    LET idx == {k \in 1..Len(tr) : tr[k].res # None}
        Nth(n) == CHOOSE k \in idx : Cardinality({j \in idx : j <= k}) = n
    IN  [n \in 1..Cardinality(idx) |-> tr[Nth(n)].res]

\* of a sequence of results, those whose (cost, co2) pair no earlier one has
FirstOfEachPair(rs) ==
    LET idx == {k \in 1..Len(rs) : \A j \in 1..(k - 1) : PairOf(rs[j]) # PairOf(rs[k])}
        Nth(n) == CHOOSE k \in idx : Cardinality({j \in idx : j <= k}) = n
    IN  [n \in 1..Cardinality(idx) |-> rs[Nth(n)]]

\* C6: the list returned by frontier_by_budget_steps and frontier_by_budget_tight
\* never holds two points with the same (cost, co2) pair, and with prune=False
\* its points are in the order in which the solves first produced their pairs.
C6_UniquePairsInFirstOrder ==
    SweepDone =>
        /\ \A i \in 1..Len(ret) : \A j \in 1..Len(ret) :
              i # j => PairOf(ret[i]) # PairOf(ret[j])
        /\ ~prune => ret = FirstOfEachPair(ReturnedOf(trace))

\* C6 witness: a uniform sweep without pruning returned two points, after a solve
\* produced a pair a second time.
C6_Witness ==
    /\ op = "steps"
    /\ pc = "done"
    /\ ~prune
    /\ Len(ret) = 2
    /\ Len(ReturnedOf(trace)) = 3

Dominates(p, q) == p[1] <= q[1] /\ p[2] >= q[2] /\ (p[1] < q[1] \/ p[2] > q[2])

\* C7: prune_points returns a list sorted by cost ascending, with strictly
\* increasing CO2, in which no point is dominated by another returned point.
C7_PrunedNonDominated ==
    (op = "prune" /\ pc = "done") =>
        /\ \A i \in 1..(Len(ret) - 1) :
              ret[i][1] <= ret[i + 1][1] /\ ret[i][2] < ret[i + 1][2]
        /\ \A i \in 1..Len(ret) : \A j \in 1..Len(ret) : ~Dominates(ret[j], ret[i])

Abs(n) == IF n < 0 THEN -n ELSE n

\* C8: frontier_by_budget_steps solves at exactly S budgets (S = steps, steps <= 1
\* counting as 2), in non-decreasing order, the first min_budget, the last
\* max_budget, the i-th the integer nearest to
\* min_budget + i * (max_budget - min_budget) / (S - 1); for min 1000, max 5000 and
\* 5 steps the budgets are 1000, 2000, 3000, 4000, 5000.
C8_BudgetsSampled ==
    /\ BudgetList(1000, 5000, FixSteps(5)) = <<1000, 2000, 3000, 4000, 5000>>
    /\ (op = "steps" /\ pc = "done") =>
          LET S == IF steps <= 1 THEN 2 ELSE steps
              d == S - 1
          IN  /\ Len(trace) = S
              /\ \A k \in 1..(S - 1) : trace[k].budget <= trace[k + 1].budget
              /\ trace[1].budget = min_budget
              /\ trace[S].budget = max_budget
              /\ \A i \in 0..(S - 1) :
                    2 * Abs(trace[i + 1].budget * d
                            - (min_budget * d + i * (max_budget - min_budget))) <= d

\* C8 witness: a sweep of three samples over an interval of odd width, whose middle
\* sample is a tie of the rounding, with a sample below and a sample within the
\* achievable costs.
C8_Witness ==
    /\ op = "steps"
    /\ pc = "done"
    /\ steps = 3
    /\ (max_budget - min_budget) % 2 = 1
    /\ trace[1].res = None
    /\ trace[3].res # None

\* C9: frontier_by_budget_tight starts at max_budget, after each solve with
\* achieved cost c solves next at c - 1, and always terminates: it stops at the
\* first solve without result or as soon as the next budget is negative or not
\* strictly below the current one, so it makes at most max_budget + 1 solver calls.
C9_TightTerminates ==
    op = "tight" =>
        /\ trace # <<>> => trace[1].budget = max_budget
        /\ \A k \in 1..(Len(trace) - 1) :
              /\ trace[k].res # None
              /\ trace[k + 1].budget = trace[k].res[1] - 1
              /\ trace[k + 1].budget >= 0
              /\ trace[k + 1].budget < trace[k].budget
        /\ Len(trace) <= max_budget + 1
        /\ (pc = "loop" /\ trace # <<>>) =>
              LET last == trace[Len(trace)] IN
              /\ last.res # None
              /\ current_budget = last.res[1] - 1
              /\ current_budget >= 0
              /\ current_budget < last.budget
        /\ pc = "loop" =>
              IF current_budget >= 0
              THEN solve_max_co2_under_budget(block_opts, current_budget,
                                              refine_lexicographic) # {}
              ELSE ENABLED TightReturn
        /\ pc \in {"exit", "done"} =>
              \/ trace = <<>> /\ max_budget < 0
              \/ /\ trace # <<>>
                 /\ LET last == trace[Len(trace)] IN
                    \/ last.res = None
                    \/ last.res[1] - 1 < 0
                    \/ last.res[1] - 1 >= last.budget

\* C9 witness: a tight sweep that ended after max_budget + 1 solves, three or more.
C9_Witness ==
    /\ op = "tight"
    /\ pc = "done"
    /\ Len(trace) = max_budget + 1
    /\ Len(trace) >= 3

\* C10: with optimal solves, for every budget B in 0..max_budget that admits an
\* assignment, the list returned by frontier_by_budget_tight holds a point of cost
\* at most B whose CO2 is the maximum CO2 achievable under budget B.
C10_TightFindsEveryLevel ==
    (op = "tight" /\ pc = "done" /\ proved) =>
        \A B \in 0..max_budget :
            WithinBudget(block_opts, B) # {} =>
                \E k \in 1..Len(ret) :
                    ret[k][1] <= B /\ ret[k][2] = BestCo2(block_opts, B)

\* C10 witness: an optimal tight sweep without pruning or refinement returned three
\* points.
C10_Witness ==
    /\ op = "tight"
    /\ pc = "done"
    /\ proved
    /\ ~prune
    /\ ~refine_lexicographic
    /\ Len(ret) = 3

\* a uniform sweep called as main() calls it: over the cheapest and the costliest
\* total, without refinement and without pruning
StepsAsCli ==
    /\ op = "steps"
    /\ NonEmptyBlocks(block_opts)
    /\ min_budget = CheapestTotal(block_opts)
    /\ max_budget = CostliestTotal(block_opts)
    /\ ~refine_lexicographic
    /\ ~prune

\* C11: the frontier that frontier_by_budget_steps returns when called as the
\* frontier-steps mode calls it holds only non-dominated outcomes, even when every
\* solve is optimal: no returned point has another returned point with cost
\* less-or-equal and CO2 greater-or-equal, one of them strict.
C11_StepsFrontierNonDominated ==
    (StepsAsCli /\ pc = "done" /\ proved) =>
        \A i \in 1..Len(ret) : \A j \in 1..Len(ret) : ~Dominates(ret[j], ret[i])

\* a run of main() on an instance without any assignment that satisfies the
\* constraints of its mode: none within the budget, or a block without options
CliInfeasible ==
    \/ /\ mode = "max-co2-under-budget"
       /\ exc # "SystemExit"
       /\ WithinBudget(block_opts, budget_int) = {}
    \/ /\ mode = "frontier-steps"
       /\ Selections(block_opts) = {}

\* C12: infeasibility is propagated as an empty result and never as an exception:
\* when no assignment satisfies the constraints (a block without applicable option
\* included) the run of the command line ends normally with an empty points output.
C12_InfeasibleEndsEmpty ==
    (pc = "done" /\ CliInfeasible) => (exc = "none" /\ ret = <<>>)

\* C13: when the first solve ends FEASIBLE (the time limit elapsed after an
\* assignment was found, before optimality was proved), solve_max_co2_under_budget
\* returns a result and not None, without the refinement and with it, whatever
\* status the second solve ends with.
C13_FeasibleIsReturned ==
    (SolveDone /\ status1 = "FEASIBLE") => ret # None

\* the least total cost among the assignments within budget B that reach the
\* maximum CO2 achievable under B
LeastCostAtBestCo2(bo, B) ==
    Min({SelCost(bo, sel) : sel \in {t \in WithinBudget(bo, B) :
                                        SelCo2(bo, t) = BestCo2(bo, B)}})

\* C17: with refine_lexicographic=True, the second solve is never infeasible when
\* the first one returned a result, and when both solves are optimal the returned
\* CO2 is the maximum achievable under the budget and the returned cost is the
\* minimum cost among the assignments that reach that CO2 within the budget.
C17_LexicographicOptimum ==
    (SolveDone /\ refine_lexicographic) =>
        /\ status1 \in {"OPTIMAL", "FEASIBLE"} => status2 \in {"OPTIMAL", "FEASIBLE", "UNKNOWN"}
        /\ (status1 = "OPTIMAL" /\ status2 = "OPTIMAL") =>
              /\ ret # None
              /\ ret[2] = BestCo2(block_opts, budget_int)
              /\ ret[1] = LeastCostAtBestCo2(block_opts, budget_int)

\* C17 witness: a refined solve, both steps optimal, returned a cost below that of
\* another assignment within the budget that reaches the same maximum CO2.
C17_Witness ==
    /\ SolveDone
    /\ refine_lexicographic
    /\ status1 = "OPTIMAL"
    /\ status2 = "OPTIMAL"
    /\ ret # None
    /\ ret[2] > 0
    /\ \E sel \in WithinBudget(block_opts, budget_int) :
          /\ SelCo2(block_opts, sel) = ret[2]
          /\ SelCost(block_opts, sel) > ret[1]

\* C18: in frontier_by_budget_tight the budgets solved are strictly decreasing and
\* each achieved cost is at most its budget, so the costs of the points appended to
\* results are strictly decreasing in append order (no two share a cost), and with
\* optimal solves their CO2 values are non-increasing in append order.
C18_TightAppendOrder ==
    op = "tight" =>
        /\ \A k \in 1..(Len(trace) - 1) : trace[k + 1].budget < trace[k].budget
        /\ \A k \in 1..Len(trace) :
              trace[k].res # None => trace[k].res[1] <= trace[k].budget
        /\ \A i \in 1..Len(results) : \A j \in 1..Len(results) :
              i < j => results[i][1] > results[j][1]
        /\ proved =>
              \A i \in 1..(Len(results) - 1) : results[i][2] >= results[i + 1][2]

\* C18 witness: an optimal tight sweep appended three points, the CO2 staying
\* level from the first to the second and falling from the second to the third.
C18_Witness ==
    /\ op = "tight"
    /\ pc = "done"
    /\ proved
    /\ Len(results) = 3
    /\ results[1][2] = results[2][2]
    /\ results[2][2] > results[3][2]

\* a uniform sweep over the interval from the sum of the blocks' cheapest options
\* to the sum of their costliest options, every block having an option
StepsOverEnds ==
    /\ op = "steps"
    /\ NonEmptyBlocks(block_opts)
    /\ min_budget = CheapestTotal(block_opts)
    /\ max_budget = CostliestTotal(block_opts)

CO2NonDecreasing(rs) == \A i \in 1..(Len(rs) - 1) : rs[i][2] <= rs[i + 1][2]

PortfolioResArea ==
    SumSeq([i \in 1..Len(blocks) |->
        blocks[i].area_m2 * coverage_for_type(params, blocks[i].cell_type)
            * MixCatalog[selection[i] + 1].res_pct])

PortfolioResUnits == PortfolioResArea \div (1000 * params.res_cell_area)

\* C14: the RES unit count from which the portfolio RES discount factor is
\* computed is floor(total RES area over all selected blocks / res_cell_area) in
\* both reporting paths, the points output (compute_counts_for_selection) and the
\* per-block table (write_table_csv); the factor is computed once from the
\* portfolio totals and the same factor is applied to every block row.
C14_ResUnitsFromTotalArea ==
    /\ (op = "report" /\ pc = "counted") =>
          /\ counts.n_res_units = PortfolioResUnits
          /\ PointFactors(counts, params).res_factor
                = discount_factor(params.res_cost_floor, PortfolioResUnits,
                                  params.res_discount_units)
    /\ (op = "report" /\ pc = "tabled") =>
          /\ table.total_res_units = PortfolioResUnits
          /\ table.res_factor
                = discount_factor(params.res_cost_floor, PortfolioResUnits,
                                  params.res_discount_units)
          /\ \A i \in 1..Len(table.rows) :
                table.rows[i].disc_res_cost
                    = <<table.rows[i].res_area * params.cost_res * table.res_factor[1],
                        table.res_factor[2]>>

\* C15: for every block, mix and parameter set, the RES area and the tree count
\* that compute_counts_for_selection and write_table_csv recompute for the selected
\* mix are those compute_block_option_metrics used for that block and mix, for a
\* cell_type in any letter case and with surrounding whitespace.
C15_RecomputationConsistent ==
    /\ (op = "report" /\ pc = "counted") =>
          \A i \in 1..Len(blocks) :
              /\ counts.rows[i].res_area = metrics[i][selection[i] + 1].res_area
              /\ counts.rows[i].trees = metrics[i][selection[i] + 1].trees
    /\ (op = "report" /\ pc = "tabled") =>
          \A i \in 1..Len(blocks) :
              /\ table.rows[i].res_area = metrics[i][selection[i] + 1].res_area
              /\ table.rows[i].trees = metrics[i][selection[i] + 1].trees

\* the defaults of Params, for the fields compute_block_option_metrics reads
DefaultParams ==
    [cost_res |-> 240, co2_res |-> 71, cost_nbs |-> 600, co2_nbs |-> 25,
     pct_covered_by_NBS_RES |-> 50, pct_covered_roof |-> -1, pct_covered_ground |-> -1,
     tree_cover_area |-> 5, tree_weight |-> 400, max_roof_load |-> 100]

\* the effective NBS area of block i under mix k, in thousandths of a m2
EffNbsArea(i, k) ==
    blocks[i].area_m2 * coverage_for_type(params, blocks[i].cell_type)
        * MixCatalog[k].nbs_pct

\* a cell_type that reads roof, or ground, in any letter case, without surrounding
\* whitespace
IsRoof(ct) == ct.word = "roof" /\ ~ct.ws
IsGround(ct) == ct.word = "ground" /\ ~ct.ws

\* C16: in compute_block_option_metrics, for a roof block with tree_weight > 0 the
\* tree count is min(floor(effective_nbs_area / tree_cover_area),
\* floor(effective_nbs_area * max_roof_load / tree_weight)) and so never exceeds
\* the load cap; for a ground block it is floor(effective_nbs_area /
\* tree_cover_area); it is a non-negative integer; area 100, coverage 50 %,
\* nbs_pct 0.4 and tree_cover_area 5 give 4 trees on ground and on a roof with
\* tree_weight 400 and max_roof_load 100.
C16_RoofLoadCap ==
    /\ compute_block_option_metrics(100, 0, 4, Lit("ground"), DefaultParams).trees = 4
    /\ compute_block_option_metrics(100, 0, 4, Lit("roof"), DefaultParams).trees = 4
    /\ (op = "report" /\ pc = "built") =>
          \A i \in 1..Len(blocks) : \A k \in 1..Len(MixCatalog) :
              LET trees == metrics[i][k].trees
                  eff == EffNbsArea(i, k)
                  by_area == eff \div (1000 * params.tree_cover_area)
              IN  /\ trees \in Nat
                  /\ (IsRoof(blocks[i].cell_type) /\ params.tree_weight > 0) =>
                        LET cap == (eff * params.max_roof_load)
                                       \div (1000 * params.tree_weight)
                        IN  /\ trees = Min({by_area, cap})
                            /\ trees <= cap
                  /\ IsGround(blocks[i].cell_type) => trees = by_area

\* C16 witness: the metrics of a roof block whose load cap is below the count its
\* area allows, and of a ground block of the same area and mix with more trees.
C16_Witness ==
    /\ op = "report"
    /\ pc = "built"
    /\ params.tree_weight > 0
    /\ IsRoof(blocks[1].cell_type)
    /\ IsGround(blocks[2].cell_type)
    /\ blocks[1].area_m2 = blocks[2].area_m2
    /\ params.pct_covered_roof < 0
    /\ \E k \in 1..Len(MixCatalog) :
          /\ metrics[1][k].trees > 0
          /\ metrics[1][k].trees < metrics[2][k].trees

====
